---- MODULE Spec2Model ----
(***************************************************************************)
(* A model of update.py of lotto-tracker: the date helpers, the four       *)
(* fetch/scrape functions and the update_database runner.                  *)
(*                                                                         *)
(* Conventions.                                                            *)
(*  - A date is its day ordinal: 0 is 2025-01-01 (a Wednesday).  The model *)
(*    covers 2025..2027, none of them a leap year.  strftime('%Y-%m-%d')   *)
(*    is Strftime, whose value is the triple <<year, month, day>>.         *)
(*  - Python's None is the empty sequence, a value v is <<v>>.             *)
(*  - What a Python call does is an outcome [raised, val]: it returns val  *)
(*    or it raises.                                                        *)
(*  - Amounts of money are whole numbers; a price is held in cents.        *)
(***************************************************************************)
EXTENDS Integers, Sequences, FiniteSets, TLC

VARIABLES
    today,        \* datetime.now().date(), as a day ordinal
    pc,           \* where the running program is
    call,         \* the helper call under way: its function and arguments
    ret,          \* what that call returned
    games_list,   \* update_database's games_list
    lottery_data, \* the contents of lottery_data.json
    requests,     \* the requests sent, in order: the game, and whether it resolved
    server,       \* the source last contacted: the responses served and those still queued
    varied,       \* the paired run: the one game whose source differs
    games_list2   \* the paired run: its games_list

vars == <<today, pc, call, ret, games_list, lottery_data, requests, server, varied, games_list2>>

----------------------------------------------------------------------------
(* Bounds *)

\* the first value of today: 2025-12-25
FirstDay == 358
\* how many consecutive values of today the helper specifications try
NumDays == 7
\* how many consecutive values of today a run of update_database tries
RunDays == 3
\* the most currency amounts on a page
MaxAmounts == 2
\* the most title boxes on a LotteryUSA page
MaxBoxes == 2
\* the most h1 elements on a page
MaxH1 == 2

Days == FirstDay .. (FirstDay + NumDays - 1)

----------------------------------------------------------------------------
(* Python values *)

None == <<>>
Some(v) == <<v>>
Return(v) == [raised |-> FALSE, val |-> v]
Raise == [raised |-> TRUE, val |-> None]

CatchNoneReraising(outcome) == outcome

\* try: ... except Exception: return None
CatchNone(outcome) == IF outcome.raised THEN Return(None) ELSE outcome

RECURSIVE SetMin(_)
SetMin(S) == LET x == CHOOSE x \in S : TRUE
             IN  IF S = {x} THEN x
                 ELSE LET m == SetMin(S \ {x}) IN IF x < m THEN x ELSE m

RECURSIVE SeqMax(_)
SeqMax(s) == IF Len(s) = 1 THEN s[1]
             ELSE LET m == SeqMax(Tail(s)) IN IF s[1] > m THEN s[1] ELSE m

----------------------------------------------------------------------------
(* The calendar: datetime.date for 2025..2027 *)

MonthLen == <<31, 28, 31, 30, 31, 30, 31, 31, 30, 31, 30, 31>>

RECURSIVE DaysBeforeMonth(_)
DaysBeforeMonth(m) == IF m = 1 THEN 0 ELSE DaysBeforeMonth(m - 1) + MonthLen[m - 1]

\* the days of the year before month m
DaysBeforeTable == [m \in 1..12 |-> DaysBeforeMonth(m)]

DaysBefore(m) == DaysBeforeTable[m]

\* date.weekday(): Monday is 0
Weekday(n) == (n + 2) % 7

RECURSIVE MonthOf(_, _)
MonthOf(doy, m) == IF doy < DaysBefore(m) + MonthLen[m] THEN m ELSE MonthOf(doy, m + 1)

\* strftime('%Y-%m-%d')
Strftime(n) ==
    LET doy == n % 365
        m   == MonthOf(doy, 1)
    IN  <<2025 + (n \div 365), m, doy - DaysBefore(m) + 1>>

\* datetime.strptime("<month> <day> <year>"): the day ordinal, or it raises
Strptime(m, d, year) ==
    IF m \in 1..12 /\ d \in 1..MonthLen[m]
    THEN Return((year - 2025) * 365 + DaysBefore(m) + d - 1)
    ELSE Raise

YearOf(n) == 2025 + (n \div 365)

----------------------------------------------------------------------------
(* Configuration *)

GameIds == <<"LOTTO", "VIKING", "EJACKPOT", "POWERBALL", "MEGAMILLIONS",
             "EUROMILLIONS", "SUPERENALOTTO">>

Games == {GameIds[i] : i \in 1..Len(GameIds)}

\* base_rtp in percent
RTP_CONFIG == [g \in Games |->
    CASE g = "LOTTO" -> 23 [] g = "VIKING" -> 25 [] g = "EJACKPOT" -> 32
      [] g = "POWERBALL" -> 15 [] g = "MEGAMILLIONS" -> 15
      [] g = "EUROMILLIONS" -> 20 [] g = "SUPERENALOTTO" -> 60]

ODDS_CONFIG == [g \in Games |->
    CASE g = "LOTTO" -> 18643560 [] g = "VIKING" -> 61357560
      [] g = "EJACKPOT" -> 139838160 [] g = "POWERBALL" -> 292201338
      [] g = "MEGAMILLIONS" -> 302575350 [] g = "EUROMILLIONS" -> 139838160
      [] g = "SUPERENALOTTO" -> 622614630]

NAMES == [g \in Games |->
    CASE g = "LOTTO" -> "Finnish Lotto" [] g = "VIKING" -> "Vikinglotto"
      [] g = "EJACKPOT" -> "Eurojackpot" [] g = "POWERBALL" -> "US Powerball"
      [] g = "MEGAMILLIONS" -> "Mega Millions" [] g = "EUROMILLIONS" -> "EuroMillions"
      [] g = "SUPERENALOTTO" -> "SuperEnalotto"]

----------------------------------------------------------------------------
(* Helpers *)

WeekdayNames == <<"monday", "tuesday", "wednesday", "thursday", "friday",
                  "saturday", "sunday">>

\* delta = (target - today.weekday()) % 7; if delta == 0: delta = 7
DaysUntilNoToday(target, t) ==
    LET delta == (target - Weekday(t)) % 7
    IN  t + delta

DaysUntil(target, t) ==
    LET delta == (target - Weekday(t)) % 7
    IN  IF delta = 0 THEN t + 7 ELSE t + delta

\* weekdays.get(weekday_name.lower()), weekday_name already lowered
WeekdayIndex(weekday_name) ==
    LET hit == {i \in 1..7 : WeekdayNames[i] = weekday_name}
    IN  IF hit = {} THEN None ELSE Some((CHOOSE i \in hit : TRUE) - 1)

_next_weekday_date(weekday_name, t) ==
    LET target == WeekdayIndex(weekday_name)
    IN  IF target = None THEN None ELSE Some(Strftime(DaysUntil(target[1], t)))

\* min(candidates) of an empty list raises ValueError, which the helper catches
_next_multi_weekday_date(weekday_indices, t) ==
    LET candidates == {DaysUntil(target, t) : target \in weekday_indices}
    IN  IF candidates = {} THEN None ELSE Some(Strftime(SetMin(candidates)))

_next_euromillions_draw_date(t) == _next_multi_weekday_date({1, 4}, t)

_next_superenalotto_draw_date(t) == _next_multi_weekday_date({1, 3, 4, 5}, t)

----------------------------------------------------------------------------
(* Program constants *)

Million == 1000000
Billion == 1000000000
\* if val > 15_000_000
EUROMILLIONS_MIN == 15000000
\* if val >= 2_000_000
SUPERENALOTTO_MIN == 2000000
\* if dt < datetime.now() - timedelta(days=60)
RolloverDays == 60

\* date_str = "Check Site": the sentinel, which is no calendar date
CheckSite == <<0, 0, 0>>

\* dt.replace(year=year + 1) when dt lies more than 60 days back.  dt is a
\* midnight and now() a later time of the day today, so dt < now - 60 days is
\* d <= today - 60 on the ordinals.
Rollover(d, t) == IF d <= t - RolloverDays THEN d + 365 ELSE d

\* "<month> <day>" of the current year, rolled over; strptime may raise
MonthDayDate(month, day, t) ==
    LET dt == Strptime(month, day, YearOf(t))
    IN  IF dt.raised THEN Raise ELSE Return(Strftime(Rollover(dt.val, t)))

Game(game_id, jackpot, price, next_draw, currency) ==
    [name |-> NAMES[game_id], jackpot |-> jackpot, price |-> price,
     next_draw |-> next_draw, currency |-> currency,
     odds_jackpot |-> ODDS_CONFIG[game_id], base_rtp |-> RTP_CONFIG[game_id]]

----------------------------------------------------------------------------
(* 1. fetch_veikkaus.  The body is what resp.json() gives: it raises, or it *)
(* is a list of draws; a field of a draw that is missing is None.  amount   *)
(* and basePrice are cents, drawTime is held as the local day it falls on.  *)

VeikkausBody(game_id, resp) ==
    IF resp.status # 200 THEN Return(None)
    ELSE IF ~resp.body.json THEN Raise
    ELSE IF resp.body.data = <<>> THEN Return(None)
    ELSE LET draw == resp.body.data[1]
         IN  IF draw.amount = None \/ draw.basePrice = None \/ draw.drawTime = None
             THEN Raise
             ELSE Return(Some(Game(game_id, draw.amount[1] \div 100,
                                   draw.basePrice[1], Strftime(draw.drawTime[1]), "EUR")))

fetch_veikkaus(game_id, resp, t) ==
    CatchNone(IF resp.raised THEN Raise ELSE VeikkausBody(game_id, resp))

----------------------------------------------------------------------------
(* 2. scrape_lotteryusa.  The body is the parsed page: its title boxes in   *)
(* order.  A box has the words of its lowered text, the text of its <time>  *)
(* sibling and the text of its subtitle sibling (cash-value spans removed). *)
(* A time text says whether it holds "Today", "Tomorrow" and which month    *)
(* and day the month pattern reads (month 0: no match).  A money text says  *)
(* whether the $ pattern matches, whether float() reads its number, the     *)
(* number and the unit.                                                     *)

TargetName(game_key) == IF game_key = "POWERBALL" THEN "powerball" ELSE "mega millions"

\* A. FIND DATE, for one box
BoxDate(game_key, box, date_str, t) ==
    IF {"next", TargetName(game_key), "draw"} \subseteq box.words /\ box.time # None
    THEN LET date_text == box.time[1]
         IN  IF date_text.today THEN Strftime(t)
             ELSE IF date_text.tomorrow THEN Strftime(t + 1)
             ELSE IF date_text.month # 0
                  THEN LET dt == MonthDayDate(date_text.month, date_text.day, t)
                       IN  IF dt.raised THEN date_str ELSE dt.val
                  ELSE date_str
    ELSE date_str

\* B. FIND JACKPOT, for one box: the new jackpot_val, or float() raises
BoxJackpot(box, jackpot_val) ==
    IF {"next", "est", "jackpot"} \subseteq box.words /\ box.subtitle # None
    THEN LET money_text == box.subtitle[1]
         IN  IF ~money_text.matched THEN Return(jackpot_val)
             ELSE IF ~money_text.floatOk THEN Raise
             ELSE IF money_text.unit = "Billion" THEN Return(money_text.num * Billion)
             ELSE Return(money_text.num * Million)
    ELSE Return(jackpot_val)

\* for title_box in titles
RECURSIVE TitlesLoop(_, _, _, _, _)
TitlesLoop(game_key, titles, jackpot_val, date_str, t) ==
    IF titles = <<>> THEN Return([jackpot_val |-> jackpot_val, date_str |-> date_str])
    ELSE LET box == Head(titles)
             d   == BoxDate(game_key, box, date_str, t)
             j   == BoxJackpot(box, jackpot_val)
         IN  IF j.raised THEN Raise
             ELSE TitlesLoop(game_key, Tail(titles), j.val, d, t)

LotteryUSAPage(game_key, page, t) ==
    LET found == TitlesLoop(game_key, page.titles, 0, CheckSite, t)
    IN  IF found.raised THEN Raise
        ELSE IF found.val.jackpot_val > 0
             THEN Return(Some(Game(game_key, found.val.jackpot_val, 200,
                                   found.val.date_str, "USD")))
             ELSE Return(None)

scrape_lotteryusa(game_key, resp, t) ==
    CatchNone(IF resp.raised THEN Raise ELSE LotteryUSAPage(game_key, resp.body, t))

----------------------------------------------------------------------------
(* 3. scrape_euromillions.  The body is the parsed page:                    *)
(*   amounts        the matches of the euro-amount pattern in full_text, in *)
(*                  order: [num, unit, floatOk] (floatOk: float() reads it) *)
(*   h1             the h1 elements in order: whether the text holds a euro *)
(*                  sign and "jackpot", and which amount is the first the   *)
(*                  pattern finds in it (0: none)                           *)
(*   label          the "Estimated Jackpot" match (SuperEnalotto)           *)
(*   next_draw      the "Next Draw: <weekday>, <day> <month>" match: the    *)
(*                  day and the month its second pattern reads (month 0: it *)
(*                  does not match)                                         *)
(*   relative_time  the "Today|Tomorrow, h:mm" match, lowered               *)
(*   weekday_time   the "<weekday>, h:mm" match, lowered                    *)
(*   p              per <p> element, the token of the combined pattern      *)

\* the (Million)? group of the EuroMillions pattern: "Billion" is not read
EuroVal(m) == IF m.unit = "Million" THEN m.num * Million ELSE m.num

\* A) the hero title: the first h1 whose amount is above the minimum, or 0
RECURSIVE H1Loop(_, _)
H1Loop(h1s, amounts) ==
    IF h1s = <<>> THEN 0
    ELSE LET h1 == Head(h1s)
         IN  IF h1.jackpot /\ h1.first # 0 /\ amounts[h1.first].floatOk
                /\ EuroVal(amounts[h1.first]) > EUROMILLIONS_MIN
             THEN EuroVal(amounts[h1.first])
             ELSE H1Loop(Tail(h1s), amounts)

\* B) candidates of the page scan
EuroCandidatesAtLeast(amounts) ==
    SelectSeq(amounts, LAMBDA m : m.floatOk /\ EuroVal(m) >= EUROMILLIONS_MIN)

EuroCandidates(amounts) ==
    SelectSeq(amounts, LAMBDA m : m.floatOk /\ EuroVal(m) > EUROMILLIONS_MIN)

EuroValues(candidates) == [i \in 1..Len(candidates) |-> EuroVal(candidates[i])]

EuroJackpot(page) ==
    LET jackpot_val == H1Loop(page.h1, page.amounts)
    IN  IF jackpot_val = 0
        THEN LET candidates == EuroValues(EuroCandidates(page.amounts))
             IN  IF candidates # <<>> THEN SeqMax(candidates) ELSE jackpot_val
        ELSE jackpot_val

\* 2. A) "Next Draw: Friday, 30th January"
EuroNextDraw(page, t) ==
    IF page.next_draw = None THEN CheckSite
    ELSE IF page.next_draw[1].month = 0 THEN CheckSite
    ELSE LET dt == MonthDayDate(page.next_draw[1].month, page.next_draw[1].day, t)
         IN  IF dt.raised THEN CheckSite ELSE dt.val

TokenDate(token, t) ==
    IF token = "today" THEN Strftime(t)
    ELSE IF token = "tomorrow" THEN Strftime(t + 1)
    ELSE LET next_date == _next_weekday_date(token, t)
         IN  IF next_date # None THEN next_date[1] ELSE CheckSite

\* for p in soup.find_all("p"), until a date is found
RECURSIVE PLoop(_, _)
PLoop(ps, t) ==
    IF ps = <<>> THEN CheckSite
    ELSE IF Head(ps) # None /\ TokenDate(Head(ps)[1], t) # CheckSite
         THEN TokenDate(Head(ps)[1], t)
         ELSE PLoop(Tail(ps), t)

\* 2. B) "Tomorrow, 7:30pm" or "Tuesday, 7:30pm"
EuroRelative(page, t) ==
    IF page.relative_time # None THEN TokenDate(page.relative_time[1], t)
    ELSE IF page.weekday_time # None THEN TokenDate(page.weekday_time[1], t)
    ELSE PLoop(page.p, t)

EuroDateRelativeFirst(page, t) ==
    LET b == EuroRelative(page, t)
        a == IF b = CheckSite THEN EuroNextDraw(page, t) ELSE b
        fallback_date == _next_euromillions_draw_date(t)
    IN  IF a # CheckSite THEN a
        ELSE IF fallback_date # None THEN fallback_date[1] ELSE CheckSite

EuroDate(page, t) ==
    LET a == EuroNextDraw(page, t)
        b == IF a = CheckSite THEN EuroRelative(page, t) ELSE a
        fallback_date == _next_euromillions_draw_date(t)
    IN  IF b # CheckSite THEN b
        ELSE IF fallback_date # None THEN fallback_date[1] ELSE CheckSite

EuroMillionsPage(page, t) ==
    LET jackpot_val == EuroJackpot(page)
        date_str    == EuroDate(page, t)
    IN  IF jackpot_val > 0
        THEN Return(Some(Game("EUROMILLIONS", jackpot_val, 250, date_str, "EUR")))
        ELSE Return(None)

scrape_euromillions(resp, t) ==
    CatchNone(IF resp.raised THEN Raise ELSE EuroMillionsPage(resp.body, t))

----------------------------------------------------------------------------
(* 4. scrape_superenalotto.  The same page; label is the "Estimated         *)
(* Jackpot" match: [num, unit, floatOk] as its own pattern reads it.        *)

SuperVal(m) ==
    IF m.unit = "Billion" THEN m.num * Billion
    ELSE IF m.unit = "Million" THEN m.num * Million
    ELSE m.num

\* 1. the labelled amount, or 0
SuperLabelled(page) ==
    IF page.label # None /\ page.label[1].floatOk THEN SuperVal(page.label[1]) ELSE 0

SuperCandidates(amounts) ==
    SelectSeq(amounts, LAMBDA m : m.floatOk /\ SuperVal(m) >= SUPERENALOTTO_MIN)

SuperValues(candidates) == [i \in 1..Len(candidates) |-> SuperVal(candidates[i])]

SuperJackpot(page) ==
    LET jackpot_val == SuperLabelled(page)
    IN  IF jackpot_val = 0
        THEN LET candidates == SuperValues(SuperCandidates(page.amounts))
             IN  IF candidates # <<>> THEN SeqMax(candidates) ELSE jackpot_val
        ELSE jackpot_val

\* 2. FIND DATE (fallback to schedule)
SuperDate(t) ==
    LET fallback_date == _next_superenalotto_draw_date(t)
    IN  IF fallback_date # None THEN fallback_date[1] ELSE CheckSite

SuperEnalottoPage(page, t) ==
    LET jackpot_val == SuperJackpot(page)
        date_str    == SuperDate(t)
    IN  IF jackpot_val > 0
        THEN Return(Some(Game("SUPERENALOTTO", jackpot_val, 100, date_str, "EUR")))
        ELSE Return(None)

scrape_superenalotto(resp, t) ==
    CatchNone(IF resp.raised THEN Raise ELSE SuperEnalottoPage(resp.body, t))

----------------------------------------------------------------------------
(* What the sources answer.  requests.get gives a response [raised, status,*)
(* body]: it raises (a timeout, no connection) or it holds a status and a   *)
(* body.  A source is a queue of the responses it gives to the requests it  *)
(* receives, one after the other.                                           *)

Resp(status, body) == [raised |-> FALSE, status |-> status, body |-> body]
Timeout(body) == [raised |-> TRUE, status |-> 0, body |-> body]

VeikkausGames == {"LOTTO", "VIKING", "EJACKPOT"}
LotteryUSAGames == {"POWERBALL", "MEGAMILLIONS"}

Draw(amount, basePrice, drawTime) ==
    [amount |-> amount, basePrice |-> basePrice, drawTime |-> drawTime]
Json(data) == [json |-> TRUE, data |-> data]
NotJson == [json |-> FALSE, data |-> <<>>]

\* a jackpot of 1,500,000.00 drawn in two days
VeikkausDraw(t) == Json(<<Draw(Some(150000000), Some(100), Some(t + 2))>>)

VeikkausQueues(t) ==
    { <<Timeout(NotJson)>>,
      <<Resp(200, VeikkausDraw(t))>>,
      <<Resp(200, Json(<<Draw(Some(150000000), Some(100), None)>>))>>,
      <<Resp(200, Json(<<>>))>>,
      <<Resp(200, NotJson)>>,
      <<Resp(500, VeikkausDraw(t))>>,
      <<Resp(429, NotJson), Resp(200, VeikkausDraw(t))>> }

Box(words, time, subtitle) == [words |-> words, time |-> time, subtitle |-> subtitle]
TimeText(td, tm, month, day) == [today |-> td, tomorrow |-> tm, month |-> month, day |-> day]
MoneyText(matched, floatOk, num, unit) ==
    [matched |-> matched, floatOk |-> floatOk, num |-> num, unit |-> unit]
Titles(titles) == [titles |-> titles]

DrawBox(game_key, time) == Box({"next", TargetName(game_key), "draw"}, time, None)
JackpotBox(subtitle) == Box({"next", "est", "jackpot"}, None, subtitle)

LotteryUSAQueues(game_key) ==
    LET jackpot == JackpotBox(Some(MoneyText(TRUE, TRUE, 450, "Million")))
    IN  { <<Timeout(Titles(<<>>))>>,
          <<Resp(200, Titles(<<DrawBox(game_key, Some(TimeText(FALSE, TRUE, 0, 0))), jackpot>>))>>,
          <<Resp(200, Titles(<<jackpot>>))>>,
          <<Resp(200, Titles(<<JackpotBox(Some(MoneyText(TRUE, FALSE, 0, "Million")))>>))>>,
          <<Resp(404, Titles(<<jackpot>>))>>,
          <<Resp(429, Titles(<<>>)), Resp(200, Titles(<<jackpot>>))>> }

Amount(num, unit) == [num |-> num, unit |-> unit, floatOk |-> TRUE]
NotFloat == [num |-> 0, unit |-> "", floatOk |-> FALSE]
H1(jackpot, first) == [jackpot |-> jackpot, first |-> first]
NextDraw(month, day) == [month |-> month, day |-> day]
Page(amounts, h1, label, next_draw, relative_time, weekday_time, p) ==
    [amounts |-> amounts, h1 |-> h1, label |-> label, next_draw |-> next_draw,
     relative_time |-> relative_time, weekday_time |-> weekday_time, p |-> p]
EmptyPage == Page(<<>>, <<>>, None, None, None, None, <<>>)

EuroMillionsQueues ==
    LET hero == Page(<<Amount(130, "Million")>>, <<H1(TRUE, 1)>>, None,
                     Some(NextDraw(12, 30)), None, None, <<>>)
    IN  { <<Timeout(EmptyPage)>>,
          <<Resp(200, hero)>>,
          <<Resp(200, Page(<<Amount(1, "Million")>>, <<>>, None, None, None, None, <<>>))>>,
          <<Resp(500, Page(<<Amount(16, "Million")>>, <<>>, None, None, None, None, <<>>))>>,
          <<Resp(429, EmptyPage), Resp(200, hero)>> }

SuperEnalottoQueues ==
    { <<Timeout(EmptyPage)>>,
      <<Resp(200, Page(<<Amount(130, "Million")>>, <<>>, Some(Amount(130, "Million")),
                       None, None, None, <<>>))>>,
      <<Resp(200, Page(<<Amount(1, "Million")>>, <<>>, Some(Amount(1, "Million")),
                       None, None, None, <<>>))>>,
      <<Resp(200, Page(<<Amount(2000000, ""), Amount(1, "Million")>>, <<>>, None,
                       None, None, None, <<>>))>>,
      <<Resp(200, EmptyPage)>>,
      <<Resp(503, EmptyPage)>> }

ServerQueues(g, t) ==
    CASE g \in VeikkausGames -> VeikkausQueues(t)
      [] g \in LotteryUSAGames -> LotteryUSAQueues(g)
      [] g = "EUROMILLIONS" -> EuroMillionsQueues
      [] g = "SUPERENALOTTO" -> SuperEnalottoQueues

----------------------------------------------------------------------------
(* update_database *)

NoCall == [fn |-> "none", arg |-> {}]

\* the call update_database makes for game g
Attempt(g, resp, t) ==
    CASE g \in VeikkausGames -> fetch_veikkaus(g, resp, t)
      [] g \in LotteryUSAGames -> scrape_lotteryusa(g, resp, t)
      [] g = "EUROMILLIONS" -> scrape_euromillions(resp, t)
      [] g = "SUPERENALOTTO" -> scrape_superenalotto(resp, t)

\* if g: games_list.append(g)
CollectDropOnFailure(list, g) == IF g # None THEN Append(list, g[1]) ELSE <<>>

CollectFirst(list, g) == IF g # None THEN <<g[1]>> \o list ELSE list

Collect(list, g) == IF g # None THEN Append(list, g[1]) ELSE list

Position(g) == CHOOSE i \in 1..Len(GameIds) : GameIds[i] = g

AfterGame(g) == IF Position(g) = Len(GameIds) THEN "save" ELSE GameIds[Position(g) + 1]

\* the file after json.dump(output, f), opened with "w"
Write(prior, t, list) == Some([last_updated |-> Strftime(t), games |-> list])

NoServer == [game |-> "none", served |-> <<>>, queued |-> <<>>]

\* a snapshot an earlier run left
PriorSnapshot ==
    Some([last_updated |-> Strftime(FirstDay - 1),
          games |-> <<Game("EUROMILLIONS", 17 * Million, 250, Strftime(FirstDay), "EUR")>>])

Init ==
    /\ today \in FirstDay .. (FirstDay + RunDays - 1)
    /\ pc = GameIds[1]
    /\ call = NoCall
    /\ ret = None
    /\ games_list = <<>>
    /\ lottery_data \in {None, PriorSnapshot}
    /\ requests = <<>>
    /\ server = NoServer
    /\ varied = "none"
    /\ games_list2 = <<>>

\* one game of the run: the request, the extraction, the append
RunGame(g) ==
    /\ pc = g
    /\ \E q \in ServerQueues(g, today) :
          LET outcome == Attempt(g, Head(q), today)
          IN  /\ requests' = Append(requests, [game |-> g, resolved |-> ~outcome.raised /\ outcome.val # None])
              /\ server' = [game |-> g, served |-> <<Head(q)>>, queued |-> Tail(q)]
              /\ IF outcome.raised
                 THEN pc' = "crashed" /\ games_list' = games_list
                 ELSE pc' = AfterGame(g) /\ games_list' = Collect(games_list, outcome.val)
    /\ UNCHANGED <<today, call, ret, lottery_data, varied, games_list2>>

\* 1. VEIKKAUS
FetchVeikkaus == \E gid \in VeikkausGames : RunGame(gid)

\* 2. US GAMES
ScrapePowerball == RunGame("POWERBALL")

ScrapeMegaMillions == RunGame("MEGAMILLIONS")

\* 3. EUROMILLIONS
ScrapeEuroMillions == RunGame("EUROMILLIONS")

\* 4. SUPERENALOTTO
ScrapeSuperEnalotto == RunGame("SUPERENALOTTO")

\* SAVE
Save ==
    /\ pc = "save"
    /\ lottery_data' = Write(lottery_data, today, games_list)
    /\ pc' = "done"
    /\ UNCHANGED <<today, call, ret, games_list, requests, server, varied, games_list2>>

Next ==
    \/ FetchVeikkaus
    \/ ScrapePowerball
    \/ ScrapeMegaMillions
    \/ ScrapeEuroMillions
    \/ ScrapeSuperEnalotto
    \/ Save

Spec == Init /\ [][Next]_vars

\* the run is scheduled to its end: nothing in it waits
LiveSpec == Spec /\ WF_vars(Next)

----------------------------------------------------------------------------
(* Claims about a run of update_database *)

Snapshot == lottery_data[1]

HasEntry(list, g) == \E i \in 1..Len(list) : list[i].name = NAMES[g]

EntryNames(list) == [i \in 1..Len(list) |-> list[i].name]

Contacted == server.game # "none"

\* C1: in every snapshot update_database writes, the EuroMillions entry has a
\* jackpot above 15,000,000 and the SuperEnalotto entry one above 2,000,000:
\* each game entry's jackpot is strictly greater than the game's minimum.
C1_JackpotAboveMinimum ==
    pc = "done" =>
        \A i \in 1..Len(Snapshot.games) :
            LET e == Snapshot.games[i]
            IN  /\ e.name = NAMES["EUROMILLIONS"] => e.jackpot > EUROMILLIONS_MIN
                /\ e.name = NAMES["SUPERENALOTTO"] => e.jackpot > SUPERENALOTTO_MIN

\* C3: a response with a non-success status is not retried and no game entry
\* is derived from it: the game just contacted has an entry only if its one
\* response had status 200.
C3_NoEntryFromErrorStatus ==
    (Contacted /\ HasEntry(games_list, server.game)) =>
        /\ Len(server.served) = 1
        /\ ~server.served[1].raised
        /\ server.served[1].status = 200

\* C4: an entry whose date extraction failed carries the schedule-computed
\* date, so no entry holds the unresolved sentinel; and a payload that lacks
\* only the draw date still yields the game's entry.
C4_ScheduleDateWhenDateMissing ==
    /\ \A i \in 1..Len(games_list) : games_list[i].next_draw # CheckSite
    /\ (Contacted /\ server.game \in VeikkausGames
          /\ server.served[1] = Resp(200, Json(<<Draw(Some(150000000), Some(100), None)>>)))
       => HasEntry(games_list, server.game)

\* C8: a source that answers 429 is asked again (up to 2 more times), so a
\* 429 followed by a response that resolves the game yields the game's entry.
C8_RetryAfter429 ==
    (/\ Contacted
     /\ ~server.served[1].raised
     /\ server.served[1].status = 429
     /\ server.queued # <<>>
     /\ Attempt(server.game, Head(server.queued), today).val # None)
    => HasEntry(games_list, server.game)

Written == lottery_data = Some([last_updated |-> Strftime(today), games |-> games_list])

\* C6: whatever the sources answer, the run reaches the step that writes the
\* snapshot and writes it (no failure of a source leaves a fetch or scrape
\* function as an exception); with every game failed the list written is empty.
C6_RunWritesSnapshot == <>(pc = "done" /\ Written)

\* a run in which no game resolved, the last source timing out
C6_Witness ==
    /\ pc = "done"
    /\ server.served[1].raised
    /\ \A i \in 1..Len(requests) : ~requests[i].resolved
    /\ Snapshot.games = <<>>

Resolved == SelectSeq(requests, LAMBDA r : r.resolved)

\* C7: the games list written is the enumeration order filtered to the games
\* that resolved in this run: every source is asked exactly once and in that
\* order, a resolved game has one entry, a failed one none, and nothing of an
\* earlier snapshot is kept.
C7_GamesInEnumerationOrder ==
    pc = "done" =>
        /\ [i \in 1..Len(requests) |-> requests[i].game] = GameIds
        /\ EntryNames(Snapshot.games) = [i \in 1..Len(Resolved) |-> NAMES[Resolved[i].game]]

\* some games resolved, some failed, over an earlier snapshot
C7_Witness ==
    /\ pc = "done"
    /\ EntryNames(Snapshot.games) = <<"Vikinglotto", "Mega Millions", "SuperEnalotto">>

----------------------------------------------------------------------------
(* Two runs of update_database side by side, which differ in what the       *)
(* source of one game (varied) answers and in nothing else.                 *)

InitPair ==
    /\ today \in FirstDay .. (FirstDay + RunDays - 1)
    /\ pc = GameIds[1]
    /\ call = NoCall
    /\ ret = None
    /\ games_list = <<>>
    /\ lottery_data = None
    /\ requests = <<>>
    /\ server = NoServer
    /\ varied \in Games
    /\ games_list2 = <<>>

PairGame(g) ==
    /\ pc = g
    /\ \E q \in ServerQueues(g, today) :
       \E q2 \in (IF g = varied THEN ServerQueues(g, today) ELSE {q}) :
          LET outcome  == Attempt(g, Head(q), today)
              outcome2 == Attempt(g, Head(q2), today)
          IN  IF outcome.raised \/ outcome2.raised
              THEN pc' = "crashed" /\ UNCHANGED <<games_list, games_list2>>
              ELSE /\ pc' = AfterGame(g)
                   /\ games_list' = Collect(games_list, outcome.val)
                   /\ games_list2' = Collect(games_list2, outcome2.val)
    /\ UNCHANGED <<today, call, ret, lottery_data, requests, server, varied>>

PairGames == \E g \in Games : PairGame(g)

PairSave ==
    /\ pc = "save"
    /\ lottery_data' = Write(lottery_data, today, games_list)
    /\ pc' = "done"
    /\ UNCHANGED <<today, call, ret, games_list, requests, server, varied, games_list2>>

NextPair == PairGames \/ PairSave

SpecPair == InitPair /\ [][NextPair]_vars

Others(list) == SelectSeq(list, LAMBDA e : e.name # NAMES[varied])

\* C5: two runs that differ only in what the source of one game answers hold
\* the same entries, with the same fields and in the same order, for every
\* other game; neither run is halted by an exception.
C5_NoCrossGameCoupling ==
    /\ pc # "crashed"
    /\ Others(games_list) = Others(games_list2)

\* the varied game resolved in one run and failed in the other, and other games resolved
C5_Witness ==
    /\ pc = "done"
    /\ HasEntry(games_list, varied)
    /\ ~HasEntry(games_list2, varied)
    /\ Len(games_list2) >= 2

----------------------------------------------------------------------------
(* The scrape functions on every page of a bounded family, each answered    *)
(* with status 200.  The jackpot pages vary the amounts, the h1 elements    *)
(* and the label; the date pages vary the date phrases and today.           *)

SeqsUpTo(S, n) == UNION {[1..k -> S] : k \in 0..n}

AmountTokens ==
    { Amount(1, "Million"), Amount(2000000, ""), Amount(15000000, ""),
      Amount(16, "Million"), Amount(130, "Million"), Amount(2, "Billion"), NotFloat }

H1s(n) == {H1(FALSE, 0)} \cup {H1(TRUE, i) : i \in 0..n}

EuroJackpotPage(a, h) == Page(a, h, None, None, None, None, <<>>)

Labels ==
    {None} \cup { Some(m) : m \in { Amount(0, ""), Amount(1, "Million"),
                                    Amount(130, "Million"), Amount(2, "Billion"), NotFloat } }

SuperJackpotPage(a, l) == Page(a, <<>>, l, None, None, None, <<>>)

\* "30th Foo", "30th January", "30th December", "30th February", "28th October"
NextDraws ==
    {None} \cup { Some(NextDraw(m, d)) : <<m, d>> \in
                    { <<0, 30>>, <<1, 30>>, <<12, 30>>, <<2, 30>>, <<10, 28>> } }

RelativeTimes == {None, Some("today"), Some("tomorrow")}

WeekdayTimes == {None} \cup { Some(WeekdayNames[i]) : i \in 1..7 }

\* a <p> holds a token only if full_text, which contains it, holds it too
PTags(relative_time, weekday_time) ==
    { <<>>, <<None>> } \cup { <<tok>> : tok \in {relative_time, weekday_time} \ {None} }

EuroDatePage(n, r, w, p) == Page(<<Amount(130, "Million")>>, <<>>, None, n, r, w, p)

\* "Today at 10:59 pm", "Tomorrow ...", "Today, Jan 24", "Jan 24", "Dec 30",
\* "Feb 30", "Friday 10:59 pm"
TimeTexts ==
    { TimeText(TRUE, FALSE, 0, 0), TimeText(FALSE, TRUE, 0, 0), TimeText(TRUE, TRUE, 1, 24),
      TimeText(FALSE, FALSE, 1, 24), TimeText(FALSE, FALSE, 12, 30),
      TimeText(FALSE, FALSE, 2, 30), TimeText(FALSE, FALSE, 0, 0) }

MoneyTexts ==
    { MoneyText(FALSE, TRUE, 0, ""), MoneyText(TRUE, TRUE, 450, "Million"),
      MoneyText(TRUE, TRUE, 1, "Billion"), MoneyText(TRUE, TRUE, 0, "Million"),
      MoneyText(TRUE, FALSE, 0, "Million") }

Boxes(game_key) ==
    { DrawBox(game_key, None), DrawBox(IF game_key = "POWERBALL" THEN "MEGAMILLIONS" ELSE "POWERBALL",
                                       Some(TimeText(TRUE, FALSE, 0, 0))),
      JackpotBox(None) }
    \cup { DrawBox(game_key, Some(x)) : x \in TimeTexts }
    \cup { JackpotBox(Some(x)) : x \in MoneyTexts }

ScrapeCall(fn, game_key, page) ==
    [fn |-> fn, arg |-> [game_key |-> game_key, resp |-> Resp(200, page)]]

InitScrape ==
    /\ \/ /\ today = FirstDay
          /\ \E a \in SeqsUpTo(AmountTokens, MaxAmounts) :
                \/ \E h \in SeqsUpTo(H1s(Len(a)), MaxH1) :
                      call = ScrapeCall("scrape_euromillions", "EUROMILLIONS", EuroJackpotPage(a, h))
                \/ \E l \in Labels :
                      call = ScrapeCall("scrape_superenalotto", "SUPERENALOTTO", SuperJackpotPage(a, l))
       \/ /\ today \in Days
          /\ \/ \E n \in NextDraws, r \in RelativeTimes, w \in WeekdayTimes :
                  \E p \in PTags(r, w) :
                     call = ScrapeCall("scrape_euromillions", "EUROMILLIONS", EuroDatePage(n, r, w, p))
             \/ \E g \in LotteryUSAGames :
                  \E b \in SeqsUpTo(Boxes(g), MaxBoxes) :
                     call = ScrapeCall("scrape_lotteryusa", g, Titles(b))
    /\ pc = "call"
    /\ ret = None
    /\ games_list = <<>>
    /\ lottery_data = None
    /\ requests = <<>>
    /\ server = NoServer
    /\ varied = "none"
    /\ games_list2 = <<>>

Returns(outcome) ==
    /\ IF outcome.raised THEN pc' = "crashed" /\ ret' = ret
                         ELSE pc' = "returned" /\ ret' = outcome.val
    /\ UNCHANGED <<today, call, games_list, lottery_data, requests, server, varied, games_list2>>

CallLotteryUSA ==
    /\ pc = "call"
    /\ call.fn = "scrape_lotteryusa"
    /\ Returns(scrape_lotteryusa(call.arg.game_key, call.arg.resp, today))

CallEuroMillions ==
    /\ pc = "call"
    /\ call.fn = "scrape_euromillions"
    /\ Returns(scrape_euromillions(call.arg.resp, today))

CallSuperEnalotto ==
    /\ pc = "call"
    /\ call.fn = "scrape_superenalotto"
    /\ Returns(scrape_superenalotto(call.arg.resp, today))

NextScrape == CallLotteryUSA \/ CallEuroMillions \/ CallSuperEnalotto

SpecScrape == InitScrape /\ [][NextScrape]_vars

----------------------------------------------------------------------------
(* Claims about the scrape functions *)

Returned(fn) == pc = "returned" /\ call.fn = fn

ThePage == call.arg.resp.body

\* the earliest date after t whose weekday is one of days
NextOn(days, t) ==
    CHOOSE k \in (t + 1)..(t + 7) :
        /\ Weekday(k) \in days
        /\ \A j \in (t + 1)..(k - 1) : Weekday(j) \notin days

\* day and month name a date of the calendar
IsDate(month, day) == month \in 1..12 /\ day \in 1..MonthLen[month]

\* <<year, month, day>> with the current year, or the next one when that date
\* lies 60 days or more before today
ThisOrNextYear(month, day, t) ==
    LET d == (YearOf(t) - 2025) * 365 + DaysBefore(month) + day - 1
    IN  <<IF d <= t - RolloverDays THEN YearOf(t) + 1 ELSE YearOf(t), month, day>>

NextDrawParses ==
    /\ ThePage.next_draw # None
    /\ IsDate(ThePage.next_draw[1].month, ThePage.next_draw[1].day)

\* the title boxes of a LotteryUSA page whose <time> text gives a date
DatedBoxes ==
    { i \in 1..Len(ThePage.titles) :
        LET box == ThePage.titles[i]
        IN  /\ {"next", TargetName(call.arg.game_key), "draw"} \subseteq box.words
            /\ box.time # None
            /\ \/ box.time[1].today
               \/ box.time[1].tomorrow
               \/ IsDate(box.time[1].month, box.time[1].day) }

LastOf(S) == CHOOSE i \in S : \A j \in S : j <= i

\* C9 as stated: a "Today"/"Tomorrow" token wins over a weekday name, which
\* wins over a month-name + day-number pattern; a EuroMillions page with
\* "Tomorrow, 7:30pm" and "Next Draw: Friday, 30th January" resolves to tomorrow.
C9_TodayTomorrowFirst ==
    (Returned("scrape_euromillions") /\ ret # None) =>
        LET d == ret[1].next_draw
        IN  /\ ThePage.relative_time = Some("today") => d = Strftime(today)
            /\ ThePage.relative_time = Some("tomorrow") => d = Strftime(today + 1)
            /\ (ThePage.relative_time = None /\ ThePage.weekday_time # None)
                  => d = Strftime(NextOn({WeekdayIndex(ThePage.weekday_time[1])[1]}, today))
            /\ (ThePage.relative_time = None /\ ThePage.weekday_time = None /\ NextDrawParses)
                  => d = ThisOrNextYear(ThePage.next_draw[1].month, ThePage.next_draw[1].day, today)

\* C9 as amended: in scrape_euromillions a "Next Draw: <weekday>, <day> <month>"
\* phrase whose day and month parse wins over a "Today"/"Tomorrow" + time token,
\* which wins over a weekday name + time, and only when none matches is the
\* result the Tuesday/Friday schedule date; in scrape_lotteryusa, in the <time>
\* text of the last dated "next <game> draw" box, "Today" wins over "Tomorrow",
\* which wins over month + day, a weekday name is not read, and with no dated
\* box the result is the sentinel.  No page makes either function raise.
C9_DatePriority ==
    /\ pc # "crashed"
    /\ (Returned("scrape_euromillions") /\ ret # None) =>
        LET d == ret[1].next_draw
        IN  /\ NextDrawParses
                  => d = ThisOrNextYear(ThePage.next_draw[1].month, ThePage.next_draw[1].day, today)
            /\ (~NextDrawParses /\ ThePage.relative_time = Some("today")) => d = Strftime(today)
            /\ (~NextDrawParses /\ ThePage.relative_time = Some("tomorrow"))
                  => d = Strftime(today + 1)
            /\ (~NextDrawParses /\ ThePage.relative_time = None /\ ThePage.weekday_time # None)
                  => d = Strftime(NextOn({WeekdayIndex(ThePage.weekday_time[1])[1]}, today))
            /\ (~NextDrawParses /\ ThePage.relative_time = None /\ ThePage.weekday_time = None)
                  => d = Strftime(NextOn({1, 4}, today))
    /\ (Returned("scrape_lotteryusa") /\ ret # None) =>
        LET d == ret[1].next_draw
        IN  IF DatedBoxes = {} THEN d = CheckSite
            ELSE LET date_text == ThePage.titles[LastOf(DatedBoxes)].time[1]
                 IN  /\ date_text.today => d = Strftime(today)
                     /\ (~date_text.today /\ date_text.tomorrow) => d = Strftime(today + 1)
                     /\ (~date_text.today /\ ~date_text.tomorrow)
                           => d = ThisOrNextYear(date_text.month, date_text.day, today)

\* "Tomorrow, 7:30pm" beside "Next Draw: Friday, 30th January": 30 January
C9_Witness ==
    /\ Returned("scrape_euromillions")
    /\ ThePage.relative_time = Some("tomorrow")
    /\ ThePage.next_draw = Some(NextDraw(1, 30))
    /\ ret # None
    /\ ret[1].next_draw = <<2026, 1, 30>>

Jackpot == ret[1].jackpot

IsMax(v, S) == v \in S /\ \A w \in S : w <= v

\* the h1 elements whose amount scrape_euromillions accepts
Heroes ==
    { i \in 1..Len(ThePage.h1) :
        /\ ThePage.h1[i].jackpot
        /\ ThePage.h1[i].first # 0
        /\ ThePage.amounts[ThePage.h1[i].first].floatOk
        /\ EuroVal(ThePage.amounts[ThePage.h1[i].first]) > EUROMILLIONS_MIN }

FirstOf(S) == CHOOSE i \in S : \A j \in S : i <= j

LabelReads == ThePage.label # None /\ ThePage.label[1].floatOk

\* the values on the page, each amount with its Million or Billion multiplier
Values == { SuperVal(ThePage.amounts[i]) :
              i \in { j \in 1..Len(ThePage.amounts) : ThePage.amounts[j].floatOk } }

\* the values as scrape_euromillions reads them: the Million multiplier alone
EuroValuesOnPage == { EuroVal(ThePage.amounts[i]) :
              i \in { j \in 1..Len(ThePage.amounts) : ThePage.amounts[j].floatOk } }

\* ret is the maximum of S, and no result when S is empty
SelectsMaxOf(S) == IF S = {} THEN ret = None ELSE ret # None /\ IsMax(Jackpot, S)

----------------------------------------------------------------------------
(* The helper _next_multi_weekday_date on every schedule and every today *)

InitSchedule ==
    /\ today \in Days
    /\ pc = "call"
    /\ call \in [fn : {"_next_multi_weekday_date"}, arg : SUBSET (0..6)]
    /\ ret = None
    /\ games_list = <<>>
    /\ lottery_data = None
    /\ requests = <<>>
    /\ server = NoServer
    /\ varied = "none"
    /\ games_list2 = <<>>

CallSchedule ==
    /\ pc = "call"
    /\ call.fn = "_next_multi_weekday_date"
    /\ ret' = _next_multi_weekday_date(call.arg, today)
    /\ pc' = "returned"
    /\ UNCHANGED <<today, call, games_list, lottery_data, requests, server, varied, games_list2>>

NextSchedule == CallSchedule

SpecSchedule == InitSchedule /\ [][NextSchedule]_vars

\* C2: for every today and every non-empty set of draw weekdays,
\* _next_multi_weekday_date returns the earliest date strictly after today whose
\* weekday is in the set; it is 1 to 7 days ahead and never today.
C2_NextDrawIsEarliestFutureDrawDay ==
    (pc = "returned" /\ call.arg # {}) =>
        \E k \in (today + 1)..(today + 7) :
            /\ ret = Some(Strftime(k))
            /\ Weekday(k) \in call.arg
            /\ \A j \in (today + 1)..(k - 1) : Weekday(j) \notin call.arg

\* the spec's two examples: {Wednesday} on a Wednesday, {Tuesday, Friday} on a Wednesday
C2_Witness ==
    /\ pc = "returned"
    /\ Weekday(today) = 2
    /\ \/ call.arg = {2} /\ ret = Some(Strftime(today + 7))
       \/ call.arg = {1, 4} /\ ret = Some(Strftime(today + 2))

====
